---- MODULE Spec2Model ----
(***************************************************************************)
(* State-machine model of the YouTube scraper (src/test2.py, the later of  *)
(* the two near-identical implementations; src/test.py differs only in the *)
(* wait condition, the sleep length, one selector and format_duration).    *)
(*                                                                         *)
(* One call of search_youtube is followed statement by statement with a    *)
(* program counter.  Everything outside the function (the browser, the     *)
(* page, the file system, the two Streamlit callbacks) is the environment: *)
(* each call into it either succeeds or raises, chosen nondeterministically.*)
(* Texts on which the code computes (the duration and the description) are *)
(* sequences of one-character strings.                                     *)
(***************************************************************************)
EXTENDS Integers, Sequences, FiniteSets, TLC

VARIABLES
    pc,             \* position in search_youtube / main
    driver,         \* the local variable `driver`: None or "driver"
    browser,        \* the Chrome process: "none", "open", "closed"
    quitCalls,      \* number of calls of driver.quit()
    driverOps,      \* number of other calls on the driver
    last_height,    \* local variable last_height
    new_height,     \* local variable new_height
    cycles,         \* completed scroll cycles of the while loop
    video_elements, \* local variable video_elements (the enumerated items)
    idx,            \* number of items the for loop has processed
    videos,         \* local variable videos
    log,            \* the log file: sequence of [level, msg, arg]
    progressCalls,  \* arguments of the calls of progress_bar.progress
    statusCalls,    \* arguments of the calls of progress_text.text
    artifact,       \* the output file: [state, videos]
    exc,            \* the exception in flight (None when there is none)
    ret,            \* the value of the executed return statement
    outcome,        \* "running", "returned" or "raised"
    raisedAt,       \* the steps of this call that raised
    fd_arg,         \* the argument of a direct call of format_duration
    fd_result       \* what that call produced

vars == <<pc, driver, browser, quitCalls, driverOps, last_height, new_height, cycles,
          video_elements, idx, videos, log, progressCalls, statusCalls,
          artifact, exc, ret, outcome, raisedAt, fd_arg, fd_result>>

----------------------------------------------------------------------------
(* Bounds of the model *)

MaxCycles == 3
MaxHeight == 4
MaxItems == 2

(* The caller-supplied iteration cap of the specification's pagination     *)
(* controller; the code has no such parameter.                             *)
max_iterations == 2

Heights == 1..MaxHeight

----------------------------------------------------------------------------
(* Python values *)

None == "None"

\* Python truthiness of a str-or-None value (`if url and title`, `if not thumbnail_url`)
Truthy(x) == x # None /\ x # ""

\* selenium raises NoSuchElementException when find_element finds nothing
NoElem == "NoSuchElement"

Unknown == <<"U","n","k","n","o","w","n">>
NoDescription == <<"N","o"," ","d","e","s","c","r","i","p","t","i","o","n"," ",
                   "a","v","a","i","l","a","b","l","e">>

Digits == <<"0","1","2","3","4","5","6","7","8","9">>
IsDigit(c) == \E i \in 1..10 : Digits[i] = c
DigitVal(c) == (CHOOSE i \in 1..10 : Digits[i] = c) - 1
IsSpace(c) == c = " "

\* str.strip()
RECURSIVE LStrip(_)
LStrip(s) == IF s # <<>> /\ IsSpace(Head(s)) THEN LStrip(Tail(s)) ELSE s
RECURSIVE RStrip(_)
RStrip(s) == IF s # <<>> /\ IsSpace(s[Len(s)]) THEN RStrip(SubSeq(s, 1, Len(s) - 1)) ELSE s
strip(s) == RStrip(LStrip(s))

\* str.split(':'): always at least one part
RECURSIVE split(_)
split(s) ==
    IF \A i \in 1..Len(s) : s[i] # ":" THEN <<s>>
    ELSE LET k == CHOOSE i \in 1..Len(s) : s[i] = ":" /\ \A j \in 1..(i-1) : s[j] # ":"
         IN <<SubSeq(s, 1, k - 1)>> \o split(SubSeq(s, k + 1, Len(s)))

\* int(str): surrounding whitespace is ignored, then one or more decimal
\* digits are required (signs and underscores are outside the alphabet used)
IntParses(s) == LET t == strip(s) IN t # <<>> /\ \A i \in 1..Len(t) : IsDigit(t[i])
RECURSIVE DigitsValue(_)
DigitsValue(t) == IF t = <<>> THEN 0
                  ELSE 10 * DigitsValue(SubSeq(t, 1, Len(t) - 1)) + DigitVal(t[Len(t)])
int(s) == DigitsValue(strip(s))

\* str(int) as an f-string prints it
RECURSIVE IntToStr(_)
IntToStr(n) == IF n < 10 THEN <<Digits[n + 1]>>
               ELSE IntToStr(n \div 10) \o <<Digits[(n % 10) + 1]>>

SHours == <<" ","h","o","u","r","s",","," ">>
SMinutes == <<" ","m","i","n","u","t","e","s",","," ">>
SSeconds == <<" ","s","e","c","o","n","d","s">>

\* format_duration: [ok |-> TRUE, val |-> the returned text], or
\* [ok |-> FALSE, ...] when int() raises ValueError
format_duration(duration) ==
    LET parts == split(duration) IN
    IF Len(parts) = 2 THEN
        IF IntParses(parts[1]) /\ IntParses(parts[2])
        THEN [ok |-> TRUE,
              val |-> IntToStr(int(parts[1])) \o SMinutes \o IntToStr(int(parts[2])) \o SSeconds]
        ELSE [ok |-> FALSE, val |-> <<>>]
    ELSE IF Len(parts) = 3 THEN
        IF IntParses(parts[1]) /\ IntParses(parts[2]) /\ IntParses(parts[3])
        THEN [ok |-> TRUE,
              val |-> IntToStr(int(parts[1])) \o SHours \o IntToStr(int(parts[2])) \o SMinutes
                      \o IntToStr(int(parts[3])) \o SSeconds]
        ELSE [ok |-> FALSE, val |-> <<>>]
    ELSE [ok |-> TRUE, val |-> duration]

----------------------------------------------------------------------------
(* Logging *)

Entry(level, msg, arg) == [level |-> level, msg |-> msg, arg |-> arg]

\* log_message: 'info', 'error' and 'debug' keep their level, any other level is info
log_message(l, msg, arg, level) ==
    Append(l, Entry(IF level \in {"info", "error", "debug"} THEN level ELSE "info", msg, arg))

----------------------------------------------------------------------------
(* The page: item elements as the extraction code sees them *)

T_0530 == <<"0","5",":","3","0">>
T_ab == <<"a",":","b">>
T_desc == <<" ","d">>

Found(t) == [found |-> TRUE, text |-> t]
Missing == [found |-> FALSE, text |-> <<>>]

\* One ytd-video-renderer element.
\*   anchor        whether the #video-title element exists
\*   title, href   its attributes (None when the attribute is absent)
\*   dur           the overlay span and its trimmed innerText
\*   desc          the snippet element and its text
\*   thumb1/2      src of the primary / alternative image: NoElem when the
\*                 element is not found, None when it has no src
Item(a, t, h, du, de, t1, t2) ==
    [anchor |-> a, title |-> t, href |-> h, dur |-> du, desc |-> de,
     thumb1 |-> t1, thumb2 |-> t2]

NoAnchorItem == Item(FALSE, None, None, Missing, Missing, NoElem, NoElem)

\* Items varying in the required fields, the optional lookups succeeding or the
\* duration lookup failing
RequiredFieldItems ==
    { Item(TRUE, t, h, du, Found(T_desc), "p.jpg", "a.jpg") :
        t \in {None, "", "A"}, h \in {None, "", "u"}, du \in {Found(T_0530), Missing} }

\* Items with valid required fields varying in the optional lookups
OptionalFieldItems ==
    { Item(TRUE, "A", "u", du, de, th[1], th[2]) :
        du \in {Found(T_0530), Found(T_ab), Missing},
        de \in {Found(T_desc), Missing},
        th \in {<<"p.jpg", "a.jpg">>, <<"", "a.jpg">>, <<"", NoElem>>,
                <<NoElem, "a.jpg">>, <<NoElem, None>>, <<NoElem, NoElem>>} }

Items == {NoAnchorItem} \cup RequiredFieldItems \cup OptionalFieldItems

\* A second valid item: same url as the others, another title, every optional
\* lookup failing
ItemB == Item(TRUE, "B", "u", Missing, Missing, NoElem, NoElem)

CoreItems ==
    { NoAnchorItem,
      Item(TRUE, "A", "u", Found(T_0530), Found(T_desc), "p.jpg", "a.jpg"),
      ItemB,
      Item(TRUE, "", "u", Found(T_0530), Found(T_desc), "p.jpg", "a.jpg"),
      Item(TRUE, "A", None, Missing, Found(T_desc), "p.jpg", "a.jpg") }

\* The lists find_elements may return: every list of at most MaxItems core
\* items, and every item of Items alone or after ItemB
Doms ==
    UNION { [1..n -> CoreItems] : n \in 0..MaxItems }
    \cup { <<it>> : it \in Items }
    \cup { <<ItemB, it>> : it \in Items }

----------------------------------------------------------------------------
(* Extraction of one item: the body of the for loop *)

\* ExtractDuration as it would be with format_duration called after the
\* try/except, its ValueError handled by keeping the raw text silently
ExtractDurationKeepsRaw(it) ==
    IF ~it.dur.found
    THEN [val |-> Unknown, log |-> <<Entry("error", "Duration not found", it.title)>>]
    ELSE LET r == format_duration(it.dur.text) IN
         IF r.ok THEN [val |-> r.val, log |-> <<>>]
         ELSE [val |-> it.dur.text, log |-> <<>>]

\* lines 110-118: the duration lookup, [val, log]
ExtractDuration(it) ==
    IF ~it.dur.found
    THEN [val |-> Unknown, log |-> <<Entry("error", "Duration not found", it.title)>>]
    ELSE LET r == format_duration(it.dur.text) IN
         IF r.ok THEN [val |-> r.val, log |-> <<>>]
         ELSE [val |-> Unknown, log |-> <<Entry("error", "Duration not found", it.title)>>]

\* lines 121-126: the description lookup
ExtractDescription(it) ==
    IF it.desc.found
    THEN [val |-> strip(it.desc.text), log |-> <<>>]
    ELSE [val |-> NoDescription,
          log |-> <<Entry("error", "Description not found", it.title)>>]

\* lines 129-143: the thumbnail lookups
ExtractThumbnail(it) ==
    LET first == IF it.thumb1 = NoElem
                 THEN [val |-> None,
                       log |-> <<Entry("debug", "Thumbnail not found at main path", it.title)>>]
                 ELSE [val |-> it.thumb1, log |-> <<>>]
    IN IF Truthy(first.val) THEN first
       ELSE IF it.thumb2 = NoElem
            THEN [val |-> first.val,
                  log |-> first.log \o
                          <<Entry("debug", "Thumbnail not found at alternative path", it.title)>>]
            ELSE [val |-> it.thumb2, log |-> first.log]

Record(it, du, de, th) ==
    [title |-> it.title, url |-> it.href, duration |-> du, description |-> de,
     thumbnail_url |-> th]

\* line 145: the test that decides whether the record is appended
Accepts(title, url) == Truthy(url) /\ Truthy(title)

\* lines 104-156: [emit, rec, log] for one item
ExtractItem(it) ==
    IF ~it.anchor
    THEN [emit |-> FALSE, rec |-> Record(it, <<>>, <<>>, None),
          log |-> <<Entry("error", "Error while processing a video element",
                          "NoSuchElementException")>>]
    ELSE LET du == ExtractDuration(it)
             de == ExtractDescription(it)
             th == ExtractThumbnail(it)
             rec == Record(it, du.val, de.val, th.val)
             ok == Accepts(it.title, it.href)
         IN [emit |-> ok, rec |-> rec,
             log |-> du.log \o de.log \o th.log \o
                     (IF ok THEN <<Entry("debug", "Found video", it.title)>> ELSE <<>>)]

----------------------------------------------------------------------------
(* search_youtube, statement by statement *)

\* fd_result before format_duration has been called
NotCalled == [by |-> "none", ok |-> TRUE, val |-> <<>>]

Init ==
    /\ pc = "acquire"
    /\ driver = None
    /\ browser = "none"
    /\ quitCalls = 0
    /\ driverOps = 0
    /\ last_height = 0
    /\ new_height = 0
    /\ cycles = 0
    /\ video_elements = <<>>
    /\ idx = 0
    /\ videos = <<>>
    /\ log = <<>>
    /\ progressCalls = <<0>>
    /\ statusCalls = <<"Starting search...">>
    /\ artifact = [state |-> "none", videos |-> <<>>, writes |-> 0]
    /\ exc = None
    /\ ret = <<>>
    /\ outcome = "running"
    /\ raisedAt = {}
    /\ fd_arg = <<>>
    /\ fd_result = NotCalled

\* An exception raised by `step` inside the try block reaches `except Exception`
Raise(kind, step) ==
    /\ pc' = "except"
    /\ exc' = kind
    /\ raisedAt' = raisedAt \cup {step}

\* line 73: driver = webdriver.Chrome(options=chrome_options)
Acquire ==
    /\ pc = "acquire"
    /\ \/ /\ driver' = "driver"
          /\ browser' = "open"
          /\ pc' = "navigate"
          /\ UNCHANGED <<exc, raisedAt>>
       \/ /\ Raise("WebDriverException", "acquire")
          /\ UNCHANGED <<driver, browser>>
    /\ UNCHANGED <<quitCalls, driverOps, last_height, cycles, video_elements, idx,
                   videos, log, progressCalls, statusCalls, artifact, ret, outcome>>
    /\ UNCHANGED <<new_height, fd_arg, fd_result>>

\* lines 75-81: driver.get, the debug log line and the first status text
Navigate ==
    /\ pc = "navigate"
    /\ driverOps' = driverOps + 1
    /\ \/ /\ Raise("WebDriverException", "get")
          /\ UNCHANGED <<log, statusCalls>>
       \/ /\ log' = log_message(log, "Accessing YouTube for query", "", "debug")
          /\ statusCalls' = Append(statusCalls, "Accessing YouTube...")
          /\ \/ Raise("CallbackError", "text:Accessing")
             \/ /\ pc' = "wait"
                /\ UNCHANGED <<exc, raisedAt>>
    /\ UNCHANGED <<driver, browser, quitCalls, last_height, cycles, video_elements, idx,
                   videos, progressCalls, artifact, ret, outcome>>
    /\ UNCHANGED <<new_height, fd_arg, fd_result>>

\* lines 84-85: the bounded wait for the first ytd-video-renderer
WaitInitial ==
    /\ pc = "wait"
    /\ driverOps' = driverOps + 1
    /\ \/ Raise("TimeoutException", "wait")
       \/ /\ pc' = "milestone50"
          /\ UNCHANGED <<exc, raisedAt>>
    /\ UNCHANGED <<driver, browser, quitCalls, last_height, cycles, video_elements, idx,
                   videos, log, progressCalls, statusCalls, artifact, ret, outcome>>
    /\ UNCHANGED <<new_height, fd_arg, fd_result>>

\* lines 86-87: progress_bar.progress(50) and the second status text
Milestone50 ==
    /\ pc = "milestone50"
    /\ progressCalls' = Append(progressCalls, 50)
    /\ \/ /\ Raise("CallbackError", "progress:50")
          /\ UNCHANGED statusCalls
       \/ /\ statusCalls' = Append(statusCalls, "Fetching...")
          /\ \/ Raise("CallbackError", "text:Fetching")
             \/ /\ pc' = "measure0"
                /\ UNCHANGED <<exc, raisedAt>>
    /\ UNCHANGED <<driver, browser, quitCalls, driverOps, last_height, cycles,
                   video_elements, idx, videos, log, artifact, ret, outcome>>
    /\ UNCHANGED <<new_height, fd_arg, fd_result>>

\* line 90: last_height = driver.execute_script("return ...scrollHeight")
MeasureInitial ==
    /\ pc = "measure0"
    /\ driverOps' = driverOps + 1
    /\ \/ /\ Raise("WebDriverException", "height")
          /\ UNCHANGED last_height
       \/ /\ \E h \in Heights : last_height' = h
          /\ pc' = "scroll"
          /\ UNCHANGED <<exc, raisedAt>>
    /\ UNCHANGED <<driver, browser, quitCalls, cycles, video_elements, idx,
                   videos, log, progressCalls, statusCalls, artifact, ret, outcome>>
    /\ UNCHANGED <<new_height, fd_arg, fd_result>>

\* lines 91-92: while True: driver.execute_script("window.scrollTo(...)")
\* (the model follows the loop for at most MaxCycles cycles)
Scroll ==
    /\ pc = "scroll"
    /\ cycles < MaxCycles
    /\ driverOps' = driverOps + 1
    /\ cycles' = cycles + 1
    /\ \/ Raise("WebDriverException", "scroll")
       \/ /\ pc' = "sleep"
          /\ UNCHANGED <<exc, raisedAt>>
    /\ UNCHANGED <<driver, browser, quitCalls, last_height, video_elements, idx,
                   videos, log, progressCalls, statusCalls, artifact, ret, outcome>>
    /\ UNCHANGED <<new_height, fd_arg, fd_result>>

\* line 93: time.sleep(7)
Sleep ==
    /\ pc = "sleep"
    /\ pc' = "measure"
    /\ UNCHANGED <<driver, browser, quitCalls, driverOps, last_height, cycles,
                   video_elements, idx, videos, log, progressCalls, statusCalls,
                   artifact, exc, ret, outcome, raisedAt>>
    /\ UNCHANGED <<new_height, fd_arg, fd_result>>

\* the exit test as it would be with <= for ==: a shrinking page also stops the loop
StalledOrShrunk(measured, last) == measured <= last

\* line 95: the loop's only exit test
Stalled(measured, last) == measured = last

\* lines 94-97: new_height = ...; if new_height == last_height: break; last_height = new_height
Measure ==
    /\ pc = "measure"
    /\ driverOps' = driverOps + 1
    /\ \/ /\ Raise("WebDriverException", "height")
          /\ UNCHANGED <<last_height, new_height>>
       \/ \E h \in Heights :
            /\ new_height' = h
            /\ IF Stalled(h, last_height)
               THEN pc' = "enumerate" /\ UNCHANGED last_height
               ELSE pc' = "scroll" /\ last_height' = h
            /\ UNCHANGED <<exc, raisedAt>>
    /\ UNCHANGED <<driver, browser, quitCalls, cycles, video_elements, idx,
                   videos, log, progressCalls, statusCalls, artifact, ret, outcome>>
    /\ UNCHANGED <<fd_arg, fd_result>>

\* lines 100-101: videos = []; video_elements = driver.find_elements(...)
Enumerate ==
    /\ pc = "enumerate"
    /\ driverOps' = driverOps + 1
    /\ videos' = <<>>
    /\ \/ /\ Raise("WebDriverException", "find_elements")
          /\ UNCHANGED <<video_elements, idx>>
       \/ /\ \E dom \in Doms : video_elements' = dom
          /\ idx' = 0
          /\ pc' = "extract"
          /\ UNCHANGED <<exc, raisedAt>>
    /\ UNCHANGED <<driver, browser, quitCalls, last_height, cycles,
                   log, progressCalls, statusCalls, artifact, ret, outcome>>
    /\ UNCHANGED <<new_height, fd_arg, fd_result>>

\* lines 103-156: one iteration of `for video in video_elements`
ProcessItem ==
    /\ pc = "extract"
    /\ idx < Len(video_elements)
    /\ LET r == ExtractItem(video_elements[idx + 1]) IN
         /\ videos' = IF r.emit THEN Append(videos, r.rec) ELSE videos
         /\ log' = log \o r.log
    /\ idx' = idx + 1
    /\ driverOps' = driverOps + 1
    /\ UNCHANGED <<pc, driver, browser, quitCalls, last_height, cycles, video_elements,
                   progressCalls, statusCalls, artifact, exc, ret, outcome, raisedAt>>
    /\ UNCHANGED <<new_height, fd_arg, fd_result>>

\* WriteArtifact as it would be with the write in a try/except of its own that
\* logs the failure and goes on to the 75% milestone
WriteArtifactLogAndContinue ==
    /\ pc = "extract"
    /\ idx = Len(video_elements)
    /\ \/ /\ raisedAt' = raisedAt \cup {"open"}
          /\ log' = log_message(log, "Error while saving video data", "OSError", "error")
          /\ UNCHANGED artifact
       \/ /\ artifact' = [state |-> "complete", videos |-> videos,
                          writes |-> artifact.writes + 1]
          /\ log' = log_message(log, "Successfully saved video data", "", "info")
          /\ UNCHANGED raisedAt
    /\ pc' = "milestone75"
    /\ UNCHANGED <<driver, browser, quitCalls, driverOps, last_height, cycles,
                   video_elements, idx, videos, progressCalls, statusCalls, ret, outcome, exc>>
    /\ UNCHANGED <<new_height, fd_arg, fd_result>>

\* lines 158-170: ensure_output_folder_exists(), open(..., 'w'), json.dump, info log
WriteArtifact ==
    /\ pc = "extract"
    /\ idx = Len(video_elements)
    /\ \/ /\ Raise("OSError", "makedirs")
          /\ UNCHANGED <<artifact, log>>
       \/ /\ Raise("OSError", "open")
          /\ UNCHANGED <<artifact, log>>
       \/ /\ Raise("OSError", "dump")
          /\ artifact' = [state |-> "partial", videos |-> <<>>,
                          writes |-> artifact.writes + 1]
          /\ UNCHANGED log
       \/ /\ artifact' = [state |-> "complete", videos |-> videos,
                          writes |-> artifact.writes + 1]
          /\ log' = log_message(log, "Successfully saved video data", "", "info")
          /\ pc' = "milestone75"
          /\ UNCHANGED <<exc, raisedAt>>
    /\ UNCHANGED <<driver, browser, quitCalls, driverOps, last_height, cycles,
                   video_elements, idx, videos, progressCalls, statusCalls, ret, outcome>>
    /\ UNCHANGED <<new_height, fd_arg, fd_result>>

\* Milestone75 as it would be with a driver.quit() added before `return videos`
\* (the finally clause then quits a second time)
Milestone75QuitsBeforeReturn ==
    /\ pc = "milestone75"
    /\ progressCalls' = Append(progressCalls, 75)
    /\ \/ /\ Raise("CallbackError", "progress:75")
          /\ UNCHANGED <<statusCalls, ret, quitCalls, browser>>
       \/ /\ statusCalls' = Append(statusCalls, "Saved...")
          /\ \/ /\ Raise("CallbackError", "text:Saved")
                /\ UNCHANGED <<ret, quitCalls, browser>>
             \/ /\ quitCalls' = quitCalls + 1
                /\ browser' = "closed"
                /\ ret' = videos
                /\ pc' = "finally"
                /\ UNCHANGED <<exc, raisedAt>>
    /\ UNCHANGED <<driver, driverOps, last_height, cycles,
                   video_elements, idx, videos, log, artifact, outcome>>
    /\ UNCHANGED <<new_height, fd_arg, fd_result>>

\* lines 172-175: progress_bar.progress(75), the third status text, return videos
Milestone75 ==
    /\ pc = "milestone75"
    /\ progressCalls' = Append(progressCalls, 75)
    /\ \/ /\ Raise("CallbackError", "progress:75")
          /\ UNCHANGED <<statusCalls, ret>>
       \/ /\ statusCalls' = Append(statusCalls, "Saved...")
          /\ \/ /\ Raise("CallbackError", "text:Saved")
                /\ UNCHANGED ret
             \/ /\ ret' = videos
                /\ pc' = "finally"
                /\ UNCHANGED <<exc, raisedAt>>
    /\ UNCHANGED <<driver, browser, quitCalls, driverOps, last_height, cycles,
                   video_elements, idx, videos, log, artifact, outcome>>
    /\ UNCHANGED <<new_height, fd_arg, fd_result>>

\* lines 177-180: except Exception as e: log, status text, return []
ExceptHandler ==
    /\ pc = "except"
    /\ log' = log_message(log, "Error while searching YouTube", exc, "error")
    /\ statusCalls' = Append(statusCalls, "Error occurred...")
    /\ pc' = "finally"
    /\ \/ /\ exc' = "CallbackError"
          /\ raisedAt' = raisedAt \cup {"text:Error"}
          /\ UNCHANGED ret
       \/ /\ exc' = None
          /\ ret' = <<>>
          /\ UNCHANGED raisedAt
    /\ UNCHANGED <<driver, browser, quitCalls, driverOps, last_height, cycles,
                   video_elements, idx, videos, progressCalls, artifact, outcome>>
    /\ UNCHANGED <<new_height, fd_arg, fd_result>>

\* Finally as it would be with driver.quit() as the last statement of the try
\* block instead of a finally clause: no release once an exception was raised
FinallyQuitOnlyOnSuccess ==
    /\ pc = "finally"
    /\ IF driver # None /\ raisedAt = {}
       THEN /\ quitCalls' = quitCalls + 1
            /\ \/ /\ browser' = "closed"
                  /\ outcome' = "returned"
                  /\ UNCHANGED <<exc, raisedAt>>
               \/ /\ exc' = "WebDriverException"
                  /\ raisedAt' = raisedAt \cup {"quit"}
                  /\ outcome' = "raised"
                  /\ UNCHANGED browser
       ELSE /\ outcome' = IF exc = None THEN "returned" ELSE "raised"
            /\ UNCHANGED <<quitCalls, browser, exc, raisedAt>>
    /\ pc' = IF outcome' = "returned" THEN "caller" ELSE "done"
    /\ UNCHANGED <<driver, driverOps, last_height, cycles, video_elements, idx, videos,
                   log, progressCalls, statusCalls, artifact, ret>>
    /\ UNCHANGED <<new_height, fd_arg, fd_result>>

\* lines 182-184: finally: if driver: driver.quit()
Finally ==
    /\ pc = "finally"
    /\ IF driver # None
       THEN /\ quitCalls' = quitCalls + 1
            /\ \/ /\ browser' = "closed"
                  /\ outcome' = IF exc = None THEN "returned" ELSE "raised"
                  /\ UNCHANGED <<exc, raisedAt>>
               \/ /\ exc' = "WebDriverException"
                  /\ raisedAt' = raisedAt \cup {"quit"}
                  /\ outcome' = "raised"
                  /\ UNCHANGED browser
       ELSE /\ outcome' = IF exc = None THEN "returned" ELSE "raised"
            /\ UNCHANGED <<quitCalls, browser, exc, raisedAt>>
    /\ pc' = IF outcome' = "returned" THEN "caller" ELSE "done"
    /\ UNCHANGED <<driver, driverOps, last_height, cycles, video_elements, idx, videos,
                   log, progressCalls, statusCalls, artifact, ret>>
    /\ UNCHANGED <<new_height, fd_arg, fd_result>>

\* main, lines 200-232: after search_youtube has returned, the results are
\* shown and progress 100 and "Completed!" are reported
MainFinish ==
    /\ pc = "caller"
    /\ progressCalls' = Append(progressCalls, 100)
    /\ \/ UNCHANGED statusCalls
       \/ statusCalls' = Append(statusCalls, "Completed!")
    /\ pc' = "done"
    /\ UNCHANGED <<driver, browser, quitCalls, driverOps, last_height, cycles,
                   video_elements, idx, videos, log, artifact, exc, ret, outcome,
                   raisedAt>>
    /\ UNCHANGED <<new_height, fd_arg, fd_result>>

Next ==
    \/ Acquire
    \/ Navigate
    \/ WaitInitial
    \/ Milestone50
    \/ MeasureInitial
    \/ Scroll
    \/ Sleep
    \/ Measure
    \/ Enumerate
    \/ ProcessItem
    \/ WriteArtifact
    \/ Milestone75
    \/ ExceptHandler
    \/ Finally
    \/ MainFinish

Spec == Init /\ [][Next]_vars

----------------------------------------------------------------------------
(* Vocabulary of the properties *)

Exited == outcome # "running"

CallbackSteps == {"text:Accessing", "progress:50", "text:Fetching", "progress:75",
                  "text:Saved", "text:Error"}
WriteSteps == {"makedirs", "open", "dump"}

\* The title and the url of an item were both extracted
TitleUrlExtracted(it) ==
    /\ it.anchor
    /\ it.title # None /\ it.title # ""
    /\ it.href # None /\ it.href # ""

\* recs holds exactly one record per item of dom with title and url, in order
RecordsOfValidItems(recs, dom) ==
    LET valid == SelectSeq(dom, TitleUrlExtracted) IN
    /\ Len(recs) = Len(valid)
    /\ \A k \in 1..Len(valid) :
         recs[k].title = valid[k].title /\ recs[k].url = valid[k].href

IsErrorEntry(e) == e.level = "error"
IsRejectionEntry(e) == e.level = "error" /\ e.msg = "Error while processing a video element"
IsSearchErrorEntry(e) == e.level = "error" /\ e.msg = "Error while searching YouTube"
NotTitleUrlExtracted(it) == ~TitleUrlExtracted(it)

----------------------------------------------------------------------------
(* C1: the pagination loop never performs more than max_iterations scroll   *)
(* cycles, whatever heights are measured.                                   *)
C1_ScrollCyclesCapped == cycles <= max_iterations

(* C2: whenever search_youtube has exited (returned or raised) with the     *)
(* browser acquired, driver.quit was called.                                *)
C2_BrowserReleasedOnExit == (Exited /\ driver # None) => quitCalls >= 1

\* an exit after a timeout of the initial wait or a failed write, browser released
C2_Witness ==
    /\ Exited
    /\ driver # None
    /\ raisedAt \cap ({"wait"} \cup WriteSteps) # {}
    /\ quitCalls = 1

(* C3: search_youtube never raises to its caller.                           *)
C3_NeverRaises == outcome # "raised"

(* C4: the returned list holds a record for an enumerated item if and only  *)
(* if its title and url were both extracted.                                *)
C4_ReturnedIffTitleAndUrl ==
    outcome = "returned" => RecordsOfValidItems(ret, video_elements)

(* C5: once the for loop is over, no record was emitted for an item missing *)
(* title or url and exactly one error-level rejection event was logged for  *)
(* each such item.                                                          *)
C5_OneRejectionPerInvalidItem ==
    (pc \in {"extract", "milestone75"} /\ idx = Len(video_elements)) =>
        /\ RecordsOfValidItems(videos, video_elements)
        /\ Len(SelectSeq(log, IsRejectionEntry))
             = Len(SelectSeq(video_elements, NotTitleUrlExtracted))

(* C6: a session whose initial wait timed out returns the empty list, logs  *)
(* exactly one error-level event, does no pagination or extraction and does *)
(* not raise.                                                               *)
C6_TimeoutReturnsEmpty ==
    (Exited /\ "wait" \in raisedAt) =>
        /\ outcome = "returned"
        /\ ret = <<>>
        /\ Len(SelectSeq(log, IsErrorEntry)) = 1
        /\ cycles = 0 /\ video_elements = <<>> /\ idx = 0

(* C7: a session that returned, with no failure or with only the initial    *)
(* wait timing out, has written the artifact exactly once, with the         *)
(* returned records as its "videos".                                        *)
C7_ArtifactAlwaysWritten ==
    (outcome = "returned" /\ raisedAt \subseteq {"wait"}) =>
        /\ artifact.writes = 1
        /\ artifact.state = "complete"
        /\ artifact.videos = ret

(* C8: when only the artifact write failed, the failure is logged and the   *)
(* call returns the records assembled in memory.                            *)
C8_WriteFailureKeepsRecords ==
    (Exited /\ raisedAt # {} /\ raisedAt \subseteq WriteSteps) =>
        /\ outcome = "returned"
        /\ ret = videos
        /\ Len(SelectSeq(log, IsErrorEntry)) >= 1

(* C9: when only reporting callbacks failed, the call returns the extracted *)
(* records and the artifact holds them, as in the session whose callbacks   *)
(* all succeed.                                                             *)
C9_CallbackFailureHarmless ==
    (Exited /\ raisedAt # {} /\ raisedAt \subseteq CallbackSteps) =>
        /\ outcome = "returned"
        /\ idx = Len(video_elements)
        /\ RecordsOfValidItems(ret, video_elements)
        /\ artifact.state = "complete"
        /\ artifact.videos = ret

(* C10: when driver.quit raises, the failure is logged, nothing propagates  *)
(* and the pending return value is returned.                                *)
C10_QuitFailureNotPropagated ==
    (Exited /\ "quit" \in raisedAt) =>
        /\ outcome = "returned"
        /\ \E i \in 1..Len(log) : log[i].level = "error" /\ log[i].arg = "WebDriverException"

----------------------------------------------------------------------------
(* Items and records of the for loop, for the per-item properties *)

\* the items processed so far whose title and url were extracted; videos[k]
\* was built from the k-th of them
ValidProcessed == SelectSeq(SubSeq(video_elements, 1, idx), TitleUrlExtracted)

\* a lookup result that is a non-empty URL
IsUrl(x) == x # NoElem /\ x # None /\ x # ""

\* the URL of the first strategy that yields a non-empty URL, else null
FirstNonEmptyUrl(it) ==
    IF IsUrl(it.thumb1) THEN it.thumb1
    ELSE IF IsUrl(it.thumb2) THEN it.thumb2
    ELSE None

(* C11: the thumbnail_url of every emitted record is the URL of the first   *)
(* strategy (primary, then alternative) that yields a non-empty URL, and is *)
(* null when no strategy does.                                              *)
C11_ThumbnailFirstNonEmptyOrNull ==
    \A k \in 1..Len(videos) :
        videos[k].thumbnail_url = FirstNonEmptyUrl(ValidProcessed[k])

----------------------------------------------------------------------------
(* format_duration called directly, on every text of a bounded set *)

MaxText == 5

DurationAlphabet == {"0", "1", "5", ":", "a"}
T_10203 == <<"1",":","0","2",":","0","3">>
T_abc == <<"a","b","c">>

\* the arguments: every text of at most MaxText characters of the alphabet
\* (so zero to six fields, numeric and not) and the examples of the specification
DurationTexts ==
    UNION { [1..n -> DurationAlphabet] : n \in 0..MaxText } \cup {T_0530, T_10203, T_abc}

\* format_duration of src/test.py: return duration.strip()
format_duration_test_py(duration) == [ok |-> TRUE, val |-> strip(duration)]

InitFormat ==
    /\ pc = "format"
    /\ fd_arg \in DurationTexts
    /\ fd_result = NotCalled
    /\ driver = None
    /\ browser = "none"
    /\ quitCalls = 0
    /\ driverOps = 0
    /\ last_height = 0
    /\ new_height = 0
    /\ cycles = 0
    /\ video_elements = <<>>
    /\ idx = 0
    /\ videos = <<>>
    /\ log = <<>>
    /\ progressCalls = <<>>
    /\ statusCalls = <<>>
    /\ artifact = [state |-> "none", videos |-> <<>>, writes |-> 0]
    /\ exc = None
    /\ ret = <<>>
    /\ outcome = "running"
    /\ raisedAt = {}

sessionVars == <<driver, browser, quitCalls, driverOps, last_height, new_height, cycles,
                 video_elements, idx, videos, log, progressCalls, statusCalls,
                 artifact, exc, ret, outcome, raisedAt>>

\* a call of format_duration of src/test2.py
FormatDuration ==
    /\ pc = "format"
    /\ LET r == format_duration(fd_arg) IN
         fd_result' = [by |-> "test2.py", ok |-> r.ok, val |-> r.val]
    /\ pc' = "formatted"
    /\ UNCHANGED <<fd_arg, sessionVars>>

\* a call of format_duration of src/test.py
FormatDurationTestPy ==
    /\ pc = "format"
    /\ LET r == format_duration_test_py(fd_arg) IN
         fd_result' = [by |-> "test.py", ok |-> r.ok, val |-> r.val]
    /\ pc' = "formatted"
    /\ UNCHANGED <<fd_arg, sessionVars>>

NextFormat ==
    \/ FormatDuration
    \/ FormatDurationTestPy

SpecFormat == InitFormat /\ [][NextFormat]_vars

----------------------------------------------------------------------------
(* Vocabulary of the format_duration properties, independent of split/int *)

\* a non-empty run of decimal digits
IsNumericField(f) == f # <<>> /\ \A i \in 1..Len(f) : IsDigit(f[i])

\* t is M:S with numeric M and S, the colon at position k
TwoNumericAt(t, k) ==
    /\ t[k] = ":"
    /\ IsNumericField(SubSeq(t, 1, k - 1))
    /\ IsNumericField(SubSeq(t, k + 1, Len(t)))

\* t is H:M:S with numeric H, M and S, the colons at positions k < l
ThreeNumericAt(t, k, l) ==
    /\ k < l
    /\ t[k] = ":" /\ t[l] = ":"
    /\ IsNumericField(SubSeq(t, 1, k - 1))
    /\ IsNumericField(SubSeq(t, k + 1, l - 1))
    /\ IsNumericField(SubSeq(t, l + 1, Len(t)))

IsTwoNumeric(t) == \E k \in 1..Len(t) : TwoNumericAt(t, k)
IsThreeNumeric(t) == \E k \in 1..Len(t) : \E l \in 1..Len(t) : ThreeNumericAt(t, k, l)

\* a decimal numeral without its leading zeros
RECURSIVE StripZeros(_)
StripZeros(f) == IF Len(f) > 1 /\ Head(f) = "0" THEN StripZeros(Tail(f)) ELSE f

(* C12: for every argument that is not two or three numeric colon-separated *)
(* fields, format_duration (src/test2.py) raises nothing and returns the    *)
(* argument unchanged.                                                      *)
C12_OtherInputsPassThrough ==
    (pc = "formatted" /\ fd_result.by = "test2.py"
       /\ ~IsTwoNumeric(fd_arg) /\ ~IsThreeNumeric(fd_arg)) =>
        (fd_result.ok /\ fd_result.val = fd_arg)

\* what the claim prescribes for M:S and for H:M:S
PhraseMinutes == <<" ","m","i","n","u","t","e","s",","," ">>
PhraseHours == <<" ","h","o","u","r","s",","," ">>
PhraseSeconds == <<" ","s","e","c","o","n","d","s">>
Phrase_0530 == <<"5"," ","m","i","n","u","t","e","s",","," ","3","0"," ","s","e","c","o","n","d","s">>
Phrase_10203 == <<"1"," ","h","o","u","r","s",","," ","2"," ","m","i","n","u","t","e","s",","," ",
                  "3"," ","s","e","c","o","n","d","s">>

\* result r is the phrase prescribed for the argument t, when t is M:S or H:M:S
IsNormalised(t, r) ==
    /\ \A k \in 1..Len(t) :
         TwoNumericAt(t, k) =>
            /\ r.ok
            /\ r.val = StripZeros(SubSeq(t, 1, k - 1)) \o PhraseMinutes
                       \o StripZeros(SubSeq(t, k + 1, Len(t))) \o PhraseSeconds
    /\ \A k \in 1..Len(t) : \A l \in 1..Len(t) :
         ThreeNumericAt(t, k, l) =>
            /\ r.ok
            /\ r.val = StripZeros(SubSeq(t, 1, k - 1)) \o PhraseHours
                       \o StripZeros(SubSeq(t, k + 1, l - 1)) \o PhraseMinutes
                       \o StripZeros(SubSeq(t, l + 1, Len(t))) \o PhraseSeconds
    /\ (t = T_0530 => r.val = Phrase_0530)
    /\ (t = T_10203 => r.val = Phrase_10203)

(* C13: for two numeric fields M:S format_duration returns                  *)
(* "<M> minutes, <S> seconds" and for three numeric fields H:M:S            *)
(* "<H> hours, <M> minutes, <S> seconds", the numbers without leading       *)
(* zeros, the unit words always plural; this for the format_duration of     *)
(* src/test2.py and of src/test.py.                                         *)
C13_NumericFieldsNormalised ==
    pc = "formatted" => IsNormalised(fd_arg, fd_result)

----------------------------------------------------------------------------
(* Vocabulary of the milestone properties *)

Reported(p) == \E i \in 1..Len(progressCalls) : progressCalls[i] = p

\* the for loop ran to its end: the write that follows it was attempted
ExtractionCompleted == artifact.writes > 0 \/ raisedAt \cap WriteSteps # {}

\* the order of the milestones: values only increase, 50 is reported after a
\* successful initial wait and before the first height measurement, 75 not
\* before the extraction is over, 100 not before search_youtube has returned
MilestonesInOrder ==
    /\ \A i \in 1..Len(progressCalls) : \A j \in 1..Len(progressCalls) :
         i < j => progressCalls[i] < progressCalls[j]
    /\ Reported(50) => "wait" \notin raisedAt
    /\ ~Reported(50) => (last_height = 0 /\ cycles = 0)
    /\ pc \in {"measure0", "scroll", "sleep", "measure", "enumerate", "extract",
               "milestone75"} => Reported(50)
    /\ Reported(75) => (Reported(50) /\ ExtractionCompleted /\ idx = Len(video_elements))
    /\ Reported(100) => (outcome = "returned" /\ pc = "done")

\* each milestone that was reached is reported
MilestonesReported ==
    /\ (Exited /\ ExtractionCompleted) => Reported(75)
    /\ (pc = "done" /\ outcome = "returned") => Reported(100)

(* C14: 50 is reported after the initial load and before pagination, 75     *)
(* once extraction has completed, 100 once the result was delivered, in     *)
(* that order, never decreasing, and 50 never after a timed-out initial     *)
(* wait.                                                                    *)
C14_ProgressMilestones == MilestonesInOrder /\ MilestonesReported

----------------------------------------------------------------------------
(* Vocabulary of the pagination properties *)

InLoop == pc \in {"scroll", "sleep", "measure"}

\* One step of the while loop.  last_height holds the height measured last
\* (h0 after line 90, then h1, h2, ...), new_height' the height measured by
\* this step.
LoopStep ==
    \* a cycle is scroll, then wait, then measure, and counts once
    /\ (pc = "scroll" /\ pc' # "scroll") => (pc' \in {"sleep", "except"} /\ cycles' = cycles + 1)
    /\ (pc = "sleep" /\ pc' # "sleep") => pc' = "measure"
    /\ (pc = "measure" /\ pc' # "measure") => pc' \in {"scroll", "enumerate", "except"}
    /\ pc # "scroll" => cycles' = cycles
    \* the loop goes on exactly when the height measured differs from the one before
    /\ (pc = "measure" /\ pc' = "scroll") =>
          (new_height' # last_height /\ last_height' = new_height')
    \* and is left exactly at the first equal pair
    /\ (pc = "measure" /\ pc' = "enumerate") =>
          (new_height' = last_height /\ last_height' = last_height)
    \* the loop is entered once only, after the first measurement
    /\ (~InLoop /\ pc' \in {"scroll", "sleep", "measure"}) => (pc = "measure0" /\ pc' = "scroll")

(* C15: the loop performs a scroll cycle (scroll, wait, measure) as long as *)
(* each measured height differs from the one before, is left at the first   *)
(* measured height equal to the one before, and does not scroll again.      *)
C15_LoopStopsAtFirstEqualPair == [][LoopStep]_vars

\* heights h0 # h1 = h2: the loop is left after exactly two cycles
C15_Witness == pc = "enumerate" /\ cycles = 2 /\ new_height = last_height

----------------------------------------------------------------------------
(* C16: in the record of every item with title and url, duration is         *)
(* "Unknown" exactly when the duration lookup failed, description is        *)
(* "No description available" exactly when the description lookup failed,   *)
(* each field is determined by its own lookup alone, and no lookup failure  *)
(* prevents the record.                                                     *)
C16_FieldsIndependent ==
    /\ pc = "extract" => Len(videos) = Len(ValidProcessed)
    /\ \A k \in 1..Len(videos) :
         /\ (videos[k].duration = Unknown) <=> ~ValidProcessed[k].dur.found
         /\ (videos[k].description = NoDescription) <=> ~ValidProcessed[k].desc.found
    /\ \A k \in 1..Len(videos) : \A j \in 1..Len(videos) :
         /\ ValidProcessed[k].dur = ValidProcessed[j].dur
               => videos[k].duration = videos[j].duration
         /\ ValidProcessed[k].desc = ValidProcessed[j].desc
               => videos[k].description = videos[j].description
         /\ (ValidProcessed[k].thumb1 = ValidProcessed[j].thumb1
               /\ ValidProcessed[k].thumb2 = ValidProcessed[j].thumb2)
               => videos[k].thumbnail_url = videos[j].thumbnail_url

----------------------------------------------------------------------------
NoAnchor(it) == ~it.anchor

\* recs is, in DOM order and without deduplication, one record per item of
\* dom that has a title and a url
IsValidSubsequence(recs, dom) ==
    LET valid == SelectSeq(dom, TitleUrlExtracted) IN
    /\ Len(recs) = Len(valid)
    /\ \A k \in 1..Len(valid) :
         /\ recs[k].title = valid[k].title
         /\ recs[k].url = valid[k].href
         /\ recs[k].thumbnail_url \in {valid[k].thumb1, valid[k].thumb2, None}

(* C17: the returned list is exactly the subsequence, in DOM order, of the  *)
(* enumerated items with valid title and url (same url twice gives two      *)
(* records), and each item whose processing raised is logged at error level *)
(* and skipped.                                                             *)
C17_ReturnedInDomOrder ==
    outcome = "returned" =>
        /\ IsValidSubsequence(ret, video_elements)
        /\ Len(SelectSeq(log, IsRejectionEntry)) = Len(SelectSeq(video_elements, NoAnchor))

----------------------------------------------------------------------------
(* C18: driver.quit is called at most once, never when the browser was not  *)
(* acquired, and after it no other call on the driver is made.              *)
C18_ReleaseOnceAndLast ==
    /\ [](quitCalls <= 1 /\ (driver = None => quitCalls = 0))
    /\ [][quitCalls >= 1 => (driverOps' = driverOps /\ quitCalls' = quitCalls)]_vars

\* a session that navigated, scrolled and extracted, then released the browser
C18_Witness == pc = "done" /\ quitCalls = 1 /\ cycles >= 1 /\ idx >= 1 /\ driverOps >= 6

----------------------------------------------------------------------------
(* C19: a non-empty return value is only ever produced after the artifact   *)
(* was written, completely and once, with that same list as "videos"; and   *)
(* 75 is reported only after the write has completed.                       *)
C19_NonEmptyReturnWasWritten ==
    /\ ret # <<>> =>
          (artifact.state = "complete" /\ artifact.videos = ret /\ artifact.writes = 1)
    /\ Reported(75) => (artifact.state = "complete" /\ artifact.videos = videos)

\* a call that has returned two records, both in the artifact
C19_Witness ==
    outcome = "returned" /\ Len(ret) = 2 /\ artifact.videos = ret /\ Reported(75)

----------------------------------------------------------------------------
\* format_duration raises on t: two or three fields, not all of them numeric
NormalisationRaises(t) ==
    /\ Cardinality({i \in 1..Len(t) : t[i] = ":"}) \in {1, 2}
    /\ ~IsTwoNumeric(t)
    /\ ~IsThreeNumeric(t)

IsDurationErrorEntry(e) == e.level = "error" /\ e.msg = "Duration not found"
DurationUnavailable(it) ==
    it.anchor /\ (~it.dur.found \/ NormalisationRaises(it.dur.text))

(* C20: when the duration text was read but format_duration raises on it,   *)
(* the record's duration is "Unknown", not the raw text, one error-level    *)
(* event is logged for the item (as for a missing duration element), and    *)
(* the record is emitted when title and url are valid.                      *)
C20_NormalisationFailureIsUnknown ==
    /\ Len(videos) = Len(ValidProcessed)
    /\ \A k \in 1..Len(videos) :
         (ValidProcessed[k].dur.found /\ NormalisationRaises(ValidProcessed[k].dur.text)) =>
            (videos[k].duration = Unknown /\ videos[k].duration # ValidProcessed[k].dur.text)
    /\ Len(SelectSeq(log, IsDurationErrorEntry))
         = Len(SelectSeq(SubSeq(video_elements, 1, idx), DurationUnavailable))

\* the record of an item whose duration text "a:b" was read
C20_Witness ==
    \E k \in 1..Len(videos) :
        /\ ValidProcessed[k].dur = Found(T_ab)
        /\ videos[k].duration = Unknown

====
